---- MODULE Spec2Model ----
(***************************************************************************)
(* SmartVarToLetVisitor of crates/oxc-modernize-core: the visitor that     *)
(* rewrites `var` declarations to `let` or `const`.  The state is the      *)
(* syntax tree being visited, the visitor's own field                      *)
(* in_for_loop_declaration, and the position of visit_program in the list  *)
(* of top-level statements.  One action per visit method.                  *)
(***************************************************************************)
EXTENDS Integers, Sequences, FiniteSets

(* ------------------------------------------------------------------ *)
(* Bounds of the explored inputs.                                       *)
(* ------------------------------------------------------------------ *)
MaxStmts == 2          \* top-level statements of a program
MaxDeclarators == 2    \* declarators of one declaration statement

(* ------------------------------------------------------------------ *)
(* Identifier names are sequences of characters, so that               *)
(* str::contains is computed and not assumed.                          *)
(* ------------------------------------------------------------------ *)
name_a == <<"a">>
name_x == <<"x">>
name_constX == <<"c", "o", "n", "s", "t", "X">>
name_name == <<"n", "a", "m", "e">>
name_obj == <<"o", "b", "j">>
name_arr == <<"a", "r", "r">>
name_result == <<"r", "e", "s", "u", "l", "t">>
name_config == <<"c", "o", "n", "f", "i", "g">>
name_settings == <<"s", "e", "t", "t", "i", "n", "g", "s">>
pat_const == <<"c", "o", "n", "s", "t">>

\* str::contains(pat): pat occurs as a contiguous substring of s.
contains(s, pat) ==
    \E i \in 0..(Len(s) - Len(pat)) : SubSeq(s, i + 1, i + Len(pat)) = pat

\* The condition of the `if` on the declared name (lines 45-47).
name_hints_const(var_name) ==
    \/ contains(var_name, pat_const)
    \/ var_name = name_a
    \/ var_name = name_name
    \/ var_name = name_obj
    \/ var_name = name_arr
    \/ var_name = name_result
    \/ var_name = name_config
    \/ var_name = name_settings

(* ------------------------------------------------------------------ *)
(* visit_variable_declaration, as a function of the declaration.       *)
(* ------------------------------------------------------------------ *)
\* The first loop stopping after the first declarator.
can_be_const_first_only(decl) ==
    decl.declarations[1].init

\* First loop: can_be_const is false as soon as one declarator has no init.
can_be_const(decl) ==
    \A i \in 1..Len(decl.declarations) : decl.declarations[i].init

\* Second loop: only BindingIdentifier declarators are judged, by name;
\* every other binding pattern leaves all_can_be_const untouched.
all_can_be_const(decl) ==
    \A i \in 1..Len(decl.declarations) :
        decl.declarations[i].id.kind = "BindingIdentifier"
            => name_hints_const(decl.declarations[i].id.name)

\* The kind assigned to a Var declaration.
new_kind(decl) ==
    IF can_be_const(decl)
    THEN IF all_can_be_const(decl) THEN "const" ELSE "let"
    ELSE "let"

\* The method without its match on the kind: every declaration is rewritten.
visit_variable_declaration_any_kind(decl) ==
    [decl EXCEPT !.kind = new_kind(decl)]

\* The method giving every declarator an initializer when it rewrites.
visit_variable_declaration_adding_init(decl) ==
    IF decl.kind = "var"
    THEN [kind |-> new_kind(decl),
          declarations |-> [i \in 1..Len(decl.declarations) |->
                               [decl.declarations[i] EXCEPT !.init = TRUE]]]
    ELSE decl

\* The whole method: only VariableDeclarationKind::Var is matched; the
\* walk over the declarators that follows changes nothing.
visit_variable_declaration(decl) ==
    IF decl.kind = "var" THEN [decl EXCEPT !.kind = new_kind(decl)] ELSE decl

(* ------------------------------------------------------------------ *)
(* Syntax trees.  A declaration is its kind and its declarators; a     *)
(* declarator is its binding pattern and whether it has an init.  A    *)
(* reference is an identifier occurrence in an expression: its name,   *)
(* how it is accessed, and whether it sits inside a function           *)
(* expression (a closure) of that expression.                          *)
(* ------------------------------------------------------------------ *)
Names == {name_a, name_x, name_constX}
ReferencedNames == {name_a, name_x}
Kinds == {"var", "let", "const"}
Accesses == {"Read", "Write", "ReadWrite", "DestructureBind"}

RECURSIVE SeqsUpTo(_, _)
SeqsUpTo(S, n) ==
    IF n = 0 THEN {<<>>}
    ELSE LET shorter == SeqsUpTo(S, n - 1)
         IN  shorter \cup {Append(q, e) : q \in {r \in shorter : Len(r) = n - 1}, e \in S}

BindingIdentifiers == {[kind |-> "BindingIdentifier", name |-> n] : n \in Names}
\* `{x}`: an object pattern binding one name.
ObjectPatterns == {[kind |-> "ObjectPattern", name |-> name_x]}

\* `var {x};` does not parse: a pattern declarator outside a for-in/of
\* header always has an initializer.
Declarators ==
    {[id |-> p, init |-> b] : p \in BindingIdentifiers, b \in BOOLEAN}
        \cup {[id |-> p, init |-> TRUE] : p \in ObjectPatterns}

\* `const` without an initializer does not parse either.
Declarations(n) ==
    {[kind |-> k, declarations |-> ds] : k \in Kinds, ds \in SeqsUpTo(Declarators, n) \ {<<>>}}
        \ {d \in [kind : {"const"}, declarations : SeqsUpTo(Declarators, n)] :
              \E i \in 1..Len(d.declarations) : ~d.declarations[i].init}

\* The left side of for-in / for-of: one declarator, no initializer.
LeftDeclarations ==
    {[kind |-> k, declarations |-> <<[id |-> p, init |-> FALSE]>>] :
        k \in Kinds, p \in BindingIdentifiers \cup ObjectPatterns}

References ==
    {[name |-> n, access |-> a, closure |-> FALSE] : n \in ReferencedNames, a \in Accesses}

\* A function expression in a loop body that reads the name: `fns.push(function () { return i; })`.
ClosureReferences ==
    {[name |-> n, access |-> "Read", closure |-> TRUE] : n \in ReferencedNames}

\* The update clause of a for statement: absent, or `n++`.
Updates ==
    {<<>>} \cup {<<[name |-> n, access |-> "ReadWrite", closure |-> FALSE]>> : n \in ReferencedNames}

EmptyStatement == [type |-> "EmptyStatement"]

ExpressionStatements(refs) == {[type |-> "ExpressionStatement", ref |-> r] : r \in refs}

DeclarationStatements(n) ==
    {[type |-> "VariableDeclaration", decl |-> d] : d \in Declarations(n)}

\* Declarations with one BindingIdentifier declarator, as found in loop
\* headers and bodies.
SimpleDeclarations ==
    {d \in Declarations(1) :
        /\ d.declarations[1].id.kind = "BindingIdentifier"
        /\ d.declarations[1].id.name \in ReferencedNames}

\* The single statement that is the body of a loop.
LoopBodies ==
    {EmptyStatement}
        \cup ExpressionStatements(ClosureReferences)
        \cup {[type |-> "VariableDeclaration", decl |-> d] :
                 d \in {e \in SimpleDeclarations : e.kind = "var"}}

\* The statement of a function body; a reference in it is made from
\* inside the function.
FunctionBodies ==
    {EmptyStatement}
        \cup ExpressionStatements(References)
        \cup {[type |-> "VariableDeclaration", decl |-> d] :
                 d \in {e \in SimpleDeclarations : e.kind = "var"}}

ForStatements ==
    {[type |-> "ForStatement", init |-> i, update |-> u, body |-> b] :
        i \in {<<>>} \cup {<<d>> : d \in SimpleDeclarations}, u \in Updates, b \in LoopBodies}

ForInStatements ==
    {[type |-> "ForInStatement", left |-> l, body |-> b] : l \in LeftDeclarations, b \in LoopBodies}

ForOfStatements ==
    {[type |-> "ForOfStatement", left |-> l, body |-> b] : l \in LeftDeclarations, b \in LoopBodies}

Functions == {[type |-> "Function", body |-> b] : b \in FunctionBodies}

\* The statements that hold a declaration or a nested statement.
DeclaringStatements ==
    DeclarationStatements(MaxDeclarators)
        \cup ForStatements \cup ForInStatements \cup ForOfStatements \cup Functions

(* ------------------------------------------------------------------ *)
(* The visit methods as functions of the node they are given.          *)
(* ------------------------------------------------------------------ *)
\* The default walk of a statement nested in a loop or function body:
\* a declaration reaches visit_variable_declaration, an expression or
\* an empty statement holds no declaration.
visit_statement(stmt) ==
    IF stmt.type = "VariableDeclaration"
    THEN [stmt EXCEPT !.decl = visit_variable_declaration(@)]
    ELSE stmt

\* visit_for_statement_init / visit_for_statement_left on a declaration.
visit_for_statement_init(init) ==
    IF init = <<>> THEN init ELSE <<visit_variable_declaration(init[1])>>

\* The override visiting test, update and body but not the init.
visit_for_statement_skipping_init(stmt) ==
    [stmt EXCEPT !.body = visit_statement(@)]

visit_for_statement(stmt) ==
    [stmt EXCEPT !.init = visit_for_statement_init(@), !.body = visit_statement(@)]

visit_for_in_statement(stmt) ==
    [stmt EXCEPT !.left = visit_variable_declaration(@), !.body = visit_statement(@)]

visit_for_of_statement(stmt) ==
    [stmt EXCEPT !.left = visit_variable_declaration(@), !.body = visit_statement(@)]

walk_function(stmt) ==
    [stmt EXCEPT !.body = visit_statement(@)]

\* The default walk of program.body: each statement goes to the visit
\* method of its type.
visit_program(body) ==
    [i \in 1..Len(body) |->
        CASE body[i].type = "ForStatement" -> visit_for_statement(body[i])
          [] body[i].type = "ForInStatement" -> visit_for_in_statement(body[i])
          [] body[i].type = "ForOfStatement" -> visit_for_of_statement(body[i])
          [] body[i].type = "Function" -> walk_function(body[i])
          [] OTHER -> visit_statement(body[i])]

(* ------------------------------------------------------------------ *)
(* State.                                                              *)
(* ------------------------------------------------------------------ *)
VARIABLES
    tree,                      \* program.body, mutated in place
    input,                     \* the tree as parsed, before any visit
    pc,                        \* index of the next statement the first visit_program visits
    run,                       \* "first" or "second" application of visit_program
    first_output,              \* the tree as the first run left it
    in_for_loop_declaration,   \* the visitor's field
    report                     \* what the caller is told besides the tree

vars == <<tree, input, pc, run, first_output, in_for_loop_declaration, report>>

\* A program: one declaring statement with reference statements before
\* and after it, at most MaxStmts statements in all.
Init ==
    /\ \E before \in SeqsUpTo(ExpressionStatements(References), MaxStmts - 1) :
       \E after \in SeqsUpTo(ExpressionStatements(References), MaxStmts - 1 - Len(before)) :
       \E s \in DeclaringStatements :
           tree = before \o <<s>> \o after
    /\ input = tree
    /\ pc = 1
    /\ run = "first"
    /\ first_output = <<>>
    /\ in_for_loop_declaration = FALSE     \* SmartVarToLetVisitor::new
    /\ report = {}                         \* the visit methods return ()

returned == pc = Len(tree) + 1

Visit(type, visited) ==
    /\ run = "first"
    /\ ~returned
    /\ tree[pc].type = type
    /\ tree' = [tree EXCEPT ![pc] = visited]
    /\ pc' = pc + 1
    /\ UNCHANGED <<input, run, first_output, report>>

VisitVariableDeclaration ==
    /\ Visit("VariableDeclaration", visit_statement(tree[pc]))
    /\ UNCHANGED in_for_loop_declaration

VisitExpressionStatement ==
    /\ Visit("ExpressionStatement", visit_statement(tree[pc]))
    /\ UNCHANGED in_for_loop_declaration

\* The flag is saved, set for the header, and restored before the rest
\* of the loop is visited; nothing reads it in between.
VisitForStatement ==
    /\ Visit("ForStatement", visit_for_statement(tree[pc]))
    /\ LET original_state == in_for_loop_declaration
       IN  in_for_loop_declaration' = original_state

VisitForInStatement ==
    /\ Visit("ForInStatement", visit_for_in_statement(tree[pc]))
    /\ LET original_state == in_for_loop_declaration
       IN  in_for_loop_declaration' = original_state

VisitForOfStatement ==
    /\ Visit("ForOfStatement", visit_for_of_statement(tree[pc]))
    /\ LET original_state == in_for_loop_declaration
       IN  in_for_loop_declaration' = original_state

VisitFunction ==
    /\ Visit("Function", walk_function(tree[pc]))
    /\ UNCHANGED in_for_loop_declaration

\* The caller applies a fresh visitor to the tree the first run
\* produced: the whole of that second visit_program.
SecondRun ==
    /\ returned
    /\ run = "first"
    /\ run' = "second"
    /\ first_output' = tree
    /\ tree' = visit_program(tree)
    /\ in_for_loop_declaration' = FALSE
    /\ UNCHANGED <<pc, input, report>>

Next ==
    \/ VisitVariableDeclaration
    \/ VisitExpressionStatement
    \/ VisitForStatement
    \/ VisitForInStatement
    \/ VisitForOfStatement
    \/ VisitFunction
    \/ SecondRun

Spec == Init /\ [][Next]_vars

TypeOK ==
    /\ pc \in 1..(Len(tree) + 1)
    /\ Len(tree) = Len(input)
    /\ run \in {"first", "second"}
    /\ in_for_loop_declaration \in BOOLEAN

(* ------------------------------------------------------------------ *)
(* Reading a tree: where its declarations are, which names they        *)
(* declare, and how the program refers to those names.                 *)
(* ------------------------------------------------------------------ *)
Slots == {"self", "init", "left", "body"}
Loops == {"ForStatement", "ForInStatement", "ForOfStatement"}

HasDecl(stmt, slot) ==
    CASE slot = "self" -> stmt.type = "VariableDeclaration"
      [] slot = "init" -> stmt.type = "ForStatement" /\ stmt.init # <<>>
      [] slot = "left" -> stmt.type \in {"ForInStatement", "ForOfStatement"}
      [] slot = "body" -> stmt.type \in Loops \cup {"Function"}
                              /\ stmt.body.type = "VariableDeclaration"

DeclOf(stmt, slot) ==
    CASE slot = "self" -> stmt.decl
      [] slot = "init" -> stmt.init[1]
      [] slot = "left" -> stmt.left
      [] slot = "body" -> stmt.body.decl

\* A site is a statement index and a slot of that statement.
Sites(program) ==
    {site \in (1..Len(program)) \X Slots : HasDecl(program[site[1]], site[2])}

DeclAt(program, site) == DeclOf(program[site[1]], site[2])

DeclaredNames(decl) ==
    {decl.declarations[i].id.name : i \in 1..Len(decl.declarations)}

\* A declaration in the program's own function scope (not in the body
\* of a nested function).
InProgramScope(program, site) ==
    ~(program[site[1]].type = "Function")

\* Every reference a statement holds.
RefsOf(stmt) ==
    CASE stmt.type = "ExpressionStatement" -> {stmt.ref}
      [] stmt.type = "ForStatement" ->
            {stmt.update[k] : k \in 1..Len(stmt.update)}
                \cup (IF stmt.body.type = "ExpressionStatement" THEN {stmt.body.ref} ELSE {})
      [] stmt.type \in {"ForInStatement", "ForOfStatement", "Function"} ->
            IF stmt.body.type = "ExpressionStatement" THEN {stmt.body.ref} ELSE {}
      [] OTHER -> {}

\* Names that some reference of the program writes: assignment,
\* compound assignment or increment, destructuring reassignment.
WrittenNames(program) ==
    {r.name : r \in {q \in UNION {RefsOf(program[i]) : i \in 1..Len(program)} :
                        q.access # "Read"}}

\* Names read or written by a statement that lexically precedes
\* statement i, in the program's own function.
NamesUsedBefore(program, i) ==
    {program[j].ref.name :
        j \in {k \in 1..(i - 1) : program[k].type = "ExpressionStatement"}}

\* visit_program has visited statement i.
Visited(i) == pc > i

\* The declaration at the site was `var` in the input.
WasVar(site) == DeclAt(input, site).kind = "var"

\* A declarator the usage analysis calls Mutable: no initializer, or
\* its name is written somewhere.
IsMutable(declarator) ==
    ~declarator.init \/ declarator.id.name \in WrittenNames(input)

(* ------------------------------------------------------------------ *)
(* C1.  A var declaration one of whose names is written anywhere in    *)
(* the program is never rewritten to const.                            *)
(* ------------------------------------------------------------------ *)
C1_WrittenNeverConst ==
    \A site \in Sites(input) :
        (/\ WasVar(site)
         /\ InProgramScope(input, site)
         /\ DeclaredNames(DeclAt(input, site)) \cap WrittenNames(input) # {})
            => DeclAt(tree, site).kind # "const"

(* ------------------------------------------------------------------ *)
(* C2.  A var declaration whose name is read or written by a statement *)
(* that precedes it in the same function keeps the kind var.           *)
(* ------------------------------------------------------------------ *)
C2_UsedBeforeDeclarationStaysVar ==
    \A site \in Sites(input) :
        (/\ WasVar(site)
         /\ InProgramScope(input, site)
         /\ DeclaredNames(DeclAt(input, site)) \cap NamesUsedBefore(input, site[1]) # {})
            => DeclAt(tree, site).kind = "var"

(* ------------------------------------------------------------------ *)
(* C3.  A var declaration in a for header whose name a closure in the  *)
(* loop body captures is rewritten only if the caller is given a       *)
(* CaptureSemanticsChange flag for that loop.                          *)
(* ------------------------------------------------------------------ *)
CapturedInBody(stmt) ==
    /\ stmt.type = "ForStatement"
    /\ stmt.init # <<>>
    /\ stmt.init[1].kind = "var"
    /\ stmt.body.type = "ExpressionStatement"
    /\ stmt.body.ref.closure
    /\ stmt.body.ref.name \in DeclaredNames(stmt.init[1])

C3_CaptureRewriteIsFlagged ==
    \A i \in 1..Len(input) :
        (CapturedInBody(input[i]) /\ tree[i].init[1].kind # "var")
            => [flag |-> "CaptureSemanticsChange", loop |-> i] \in report

(* ------------------------------------------------------------------ *)
(* C4.  The var counter of a for statement that the loop's update      *)
(* clause mutates is rewritten to let, whatever its name.              *)
(* ------------------------------------------------------------------ *)
IsMutatedCounter(stmt) ==
    /\ stmt.type = "ForStatement"
    /\ stmt.init # <<>>
    /\ stmt.init[1].kind = "var"
    /\ stmt.update # <<>>
    /\ stmt.update[1].name \in DeclaredNames(stmt.init[1])

C4_LoopCounterBecomesLet ==
    \A i \in 1..Len(input) :
        (IsMutatedCounter(input[i]) /\ Visited(i)) => tree[i].init[1].kind = "let"

(* ------------------------------------------------------------------ *)
(* C5.  A var declaration of one initialized name that is never        *)
(* written and never used before the declaration is rewritten to       *)
(* const, whatever its name.                                           *)
(* ------------------------------------------------------------------ *)
IsReadOnlyDeclaration(program, i) ==
    /\ program[i].type = "VariableDeclaration"
    /\ program[i].decl.kind = "var"
    /\ Len(program[i].decl.declarations) = 1
    /\ program[i].decl.declarations[1].id.kind = "BindingIdentifier"
    /\ program[i].decl.declarations[1].init
    /\ program[i].decl.declarations[1].id.name \notin WrittenNames(program)
    /\ program[i].decl.declarations[1].id.name \notin NamesUsedBefore(program, i)

C5_ReadOnlyBecomesConst ==
    \A i \in 1..Len(input) :
        (IsReadOnlyDeclaration(input, i) /\ Visited(i)) => tree[i].decl.kind = "const"

(* ------------------------------------------------------------------ *)
(* C6.  A var statement declaring several names becomes let if any of  *)
(* its names is Mutable (written, or uninitialized) and const only if  *)
(* every one of them is Immutable.                                     *)
(* ------------------------------------------------------------------ *)
IsSeveralNames(program, i) ==
    /\ program[i].type = "VariableDeclaration"
    /\ program[i].decl.kind = "var"
    /\ Len(program[i].decl.declarations) >= 2
    /\ DeclaredNames(program[i].decl) \cap NamesUsedBefore(program, i) = {}

C6_AnyMutableMakesLet ==
    \A i \in 1..Len(input) :
        (IsSeveralNames(input, i) /\ Visited(i)) =>
            LET ds == input[i].decl.declarations
                anyMutable == \E k \in 1..Len(ds) : IsMutable(ds[k])
            IN  /\ anyMutable => tree[i].decl.kind = "let"
                /\ tree[i].decl.kind = "const" => ~anyMutable

(* ------------------------------------------------------------------ *)
(* C7.  A var statement with a declarator that has no initializer is   *)
(* never rewritten to const; once visited it is let, whatever the      *)
(* names and the other declarators are.                                *)
(* ------------------------------------------------------------------ *)
HasUninitialized(decl) ==
    \E k \in 1..Len(decl.declarations) : ~decl.declarations[k].init

C7_UninitializedBecomesLet ==
    \A i \in 1..Len(input) : \A slot \in Slots :
        (/\ HasDecl(input[i], slot)
         /\ DeclOf(input[i], slot).kind = "var"
         /\ HasUninitialized(DeclOf(input[i], slot))) =>
            /\ DeclOf(tree[i], slot).kind # "const"
            /\ Visited(i) => DeclOf(tree[i], slot).kind = "let"

\* `var a = 1, x;` (a name that hints const, then a bare declarator) has
\* been visited and is let.
C7_Witness ==
    \E i \in 1..Len(input) :
        /\ input[i].type = "VariableDeclaration"
        /\ input[i].decl.kind = "var"
        /\ Len(input[i].decl.declarations) = 2
        /\ input[i].decl.declarations[1].init
        /\ input[i].decl.declarations[1].id.name = name_a
        /\ ~input[i].decl.declarations[2].init
        /\ pc > i
        /\ tree[i].decl.kind = "let"

(* ------------------------------------------------------------------ *)
(* C8.  A declaration that is already let or const keeps its kind, and *)
(* a second run over the output of the first changes no declaration.   *)
(* ------------------------------------------------------------------ *)
C8_BlockScopedUntouched ==
    /\ \A i \in 1..Len(input) : \A slot \in Slots :
           (HasDecl(input[i], slot) /\ DeclOf(input[i], slot).kind # "var")
               => DeclOf(tree[i], slot).kind = DeclOf(input[i], slot).kind
    /\ run = "second" => tree = first_output

\* The second run has returned on a loop whose header was `let` in the
\* input and whose body held a `var` the first run rewrote.
C8_Witness ==
    /\ run = "second"
    /\ returned
    /\ \E i \in 1..Len(input) :
           /\ input[i].type = "ForStatement"
           /\ input[i].init # <<>>
           /\ input[i].init[1].kind = "let"
           /\ input[i].body.type = "VariableDeclaration"
           /\ first_output[i].body.decl.kind # "var"

(* ------------------------------------------------------------------ *)
(* C9.  Only the kind of declarations changes: names, patterns,        *)
(* initializers, the declarators and statements and their order, and   *)
(* every other node are as in the input.                               *)
(* ------------------------------------------------------------------ *)
WithoutKind(decl) == [decl EXCEPT !.kind = "var"]

WithoutKinds(stmt) ==
    LET body(b) == IF b.type = "VariableDeclaration"
                   THEN [b EXCEPT !.decl = WithoutKind(@)] ELSE b
    IN  CASE stmt.type = "VariableDeclaration" -> [stmt EXCEPT !.decl = WithoutKind(@)]
          [] stmt.type = "ForStatement" ->
                [stmt EXCEPT !.init = IF @ = <<>> THEN @ ELSE <<WithoutKind(@[1])>>,
                             !.body = body(@)]
          [] stmt.type \in {"ForInStatement", "ForOfStatement"} ->
                [stmt EXCEPT !.left = WithoutKind(@), !.body = body(@)]
          [] stmt.type = "Function" -> [stmt EXCEPT !.body = body(@)]
          [] OTHER -> stmt

C9_OnlyKindChanges ==
    /\ Len(tree) = Len(input)
    /\ \A i \in 1..Len(input) : WithoutKinds(tree[i]) = WithoutKinds(input[i])

\* visit_program has returned after rewriting the header of a for-of
\* loop and a multi-declarator statement's kind.
C9_Witness ==
    /\ returned
    /\ tree # input
    /\ \E i \in 1..Len(input) :
           \/ /\ input[i].type = "ForOfStatement"
              /\ tree[i].left.kind # input[i].left.kind
           \/ /\ input[i].type = "VariableDeclaration"
              /\ Len(input[i].decl.declarations) = 2
              /\ HasUninitialized(input[i].decl)
              /\ tree[i].decl.kind # input[i].decl.kind

(* ------------------------------------------------------------------ *)
(* C10.  When visit_program has returned no declaration of kind var    *)
(* is left: not in a for init, a for-in or for-of left side, a loop    *)
(* body or a function body.                                            *)
(* ------------------------------------------------------------------ *)
C10_NoVarRemains ==
    returned =>
        \A i \in 1..Len(tree) : \A slot \in Slots :
            HasDecl(tree[i], slot) => DeclOf(tree[i], slot).kind # "var"

\* visit_program has returned on a for statement that had `var` both in
\* its init and in its body.
C10_Witness ==
    /\ returned
    /\ run = "first"
    /\ \E i \in 1..Len(input) :
           /\ input[i].type = "ForStatement"
           /\ input[i].init # <<>>
           /\ input[i].init[1].kind = "var"
           /\ input[i].body.type = "VariableDeclaration"
           /\ input[i].body.decl.kind = "var"

====
